---- MODULE Spec2Model ----
(***************************************************************************)
(* The Copilot token manager (package copilot, TokenManager): GetToken,    *)
(* refreshToken with its lock file, saveTokenToFile / loadTokenFromFile on *)
(* the shared token.json, and the watchTokenFile goroutine, for two        *)
(* processes sharing one config directory; config.Load, the router of     *)
(* package api with its middlewares and its three proxying handlers, and   *)
(* the ModelsCache behind /v1/models.                                      *)
(*                                                                         *)
(* Every action is one atomic step of the Go code: a critical section of   *)
(* tm.mu, one file-system call, or the HTTP exchange.  time.Sleep is a     *)
(* point where the goroutine is descheduled: the clock (Tick) and every    *)
(* other goroutine may run before it continues.                            *)
(***************************************************************************)
EXTENDS Integers, Sequences, FiniteSets

\* ------------------------------------------------------------- bounds
StartTime == 1000
MaxTicks == 1
\* The number of expiries, half a second apart, that the refresh loop's
\* sleep is computed for.
ExpirySpan == 30
\* The background refreshes of the models cache that are in flight at once.
MaxRefreshes == 2
\* The half-TTLs the clock of the models cache advances by.
MaxSpans == 3

\* -------------------------------------------------- program constants
SafetyMargin == 120
LockAttempts == 5
StaleLockAge == 300

\* ------------------------------------------------------------ threads
\* Two processes share the config directory.  A caller is one request
\* handler goroutine; it calls GetToken once.
Procs == {"A", "B"}
Callers == {"a1", "a2", "b1"}
ProcOf(t) == IF t = "b1" THEN "B" ELSE "A"
\* The refreshLoop goroutine of process A: it runs the same refreshToken.
Loops == {"loopA"}
\* The goroutines that run refreshToken.
Threads == Callers \cup Loops

\* The names the backend gives the tokens it issues, in order of issue.
TokenNames == <<"t1", "t2", "t3", "t4">>
\* The lifetime of a token issued by the backend.
TokenTTL == SafetyMargin + 1

VARIABLES
    now,            \* time.Now().Unix()
    issued,         \* tokens the backend has issued so far
    tokenFile,      \* token.json
    tempFile,       \* token.json.tmp
    lockFile,       \* token.json.lock
    githubToken,    \* tm.githubToken, per process
    isSelfWriting,  \* tm.isSelfWriting, per process
    lastMod,        \* watchTokenFile's lastMod, per process
    wpc,            \* watchTokenFile's position, per process
    wtimer,         \* when the time.Sleep watchTokenFile is in began
    pc,             \* a caller's position
    snap,           \* GetToken's local token (the pointer read under RLock)
    attempts,       \* refreshToken's i
    fetched,        \* refreshToken's local token (decoded response)
    saving,         \* saveTokenToFile's local token
    fd,             \* the file os.WriteFile has open
    rerr,           \* what refreshToken returned
    ret,            \* what GetToken returned
    batch,          \* history: the callers whose refreshToken calls overlapped
    creds,          \* apps.json and hosts.json of the config directory
    mgr,            \* what NewTokenManager has returned, per process
    oauthToken,     \* tm.oauthToken, per process
    rpc,            \* refreshLoop's position, per process
    sleep,          \* refreshLoop's sleep and the time its timer started
    cancelled,      \* refreshCtx is done, per process
    cpc,            \* Close's position, per process
    loopExp,        \* a cached token's ExpiresAt, in half seconds
    env,            \* the environment variables of the process
    cfg,            \* what config.Load returned
    req,            \* the HTTP request the server has received
    hpc,            \* the position of the request in the router
    resp,           \* the status written to the client (0: none yet)
    sent,           \* the requests sent to api.githubcopilot.com
    modelsCache,    \* main's modelsCache: nil, or the ModelsCache it points to
    refreshing,     \* the go c.refresh(...) goroutines that have not returned
    got             \* what the last GetModels returned

\* The state of construction, the refresh loop and shutdown.
lifeVars == <<creds, mgr, oauthToken, rpc, sleep, cancelled, cpc, loopExp>>
\* The configuration and the HTTP router (package config, package api).
modelVars == <<modelsCache, refreshing, got>>
webVars == <<env, cfg, req, hpc, resp, sent, modelVars>>
\* What no step of the program changes once it runs.
fixedVars == <<wtimer>>

vars == <<now, issued, tokenFile, tempFile, lockFile, githubToken,
          isSelfWriting, lastMod, wpc, wtimer, pc, snap, attempts, fetched, saving,
          fd, rerr, ret, batch, lifeVars, webVars>>

\* ------------------------------------------------------------- tokens
\* A nil *CopilotToken.
NilToken == [nil |-> TRUE]

CopilotToken(tok, exp) == [Token |-> tok, ExpiresAt |-> exp]

\* Mutant: the expiry is not compared with the clock.
TokenValid_NoExpiry(token, t) == token # NilToken

\* token != nil && token.ExpiresAt > float64(time.Now().Unix())+120
TokenValid(token, t) == token # NilToken /\ token.ExpiresAt > t + SafetyMargin

\* isTokenValid, on the cache of process p.
isTokenValid(p) == TokenValid(githubToken[p], now)

\* --------------------------------------------------------------- JSON
\* A file's bytes are the sequence of lexemes of its JSON text; the empty
\* sequence is the empty file.
Marshal(token) ==
    << [t |-> "{"],
       [t |-> "token", s |-> token.Token],
       [t |-> "expires_at", n |-> token.ExpiresAt],
       [t |-> "}"] >>

WellFormed(data) ==
    /\ Len(data) >= 2
    /\ data[1].t = "{"
    /\ data[Len(data)].t = "}"
    /\ \A i \in 2..(Len(data) - 1) : data[i].t \in {"token", "expires_at"}

\* The value of the last member named k, or the zero value.
Member(data, k, field, zero) ==
    LET at == {i \in 1..Len(data) : data[i].t = k}
    IN  IF at = {} THEN zero
        ELSE data[CHOOSE i \in at : \A j \in at : j <= i][field]

Unmarshal(data) ==
    CopilotToken(Member(data, "token", "s", ""), Member(data, "expires_at", "n", 0))

\* -------------------------------------------------------------- files
NoFile == [exists |-> FALSE]
File(data, mtime) == [exists |-> TRUE, data |-> data, mtime |-> mtime]
NoLock == [exists |-> FALSE]
Lock(mtime, owner) == [exists |-> TRUE, mtime |-> mtime, owner |-> owner]

\* f.Write(data) on a descriptor at offset 0: the bytes beyond len(data)
\* that the file already held stay.
WriteAt0(old, data) == data \o SubSeq(old, Len(data) + 1, Len(old))

\* loadTokenFromFile: the cache of a process after it, given the file.
LoadedToken(p) ==
    IF tokenFile.exists /\ WellFormed(tokenFile.data)
    THEN Unmarshal(tokenFile.data)
    ELSE githubToken[p]

\* ------------------------------------------------------- credentials
\* A host name is the sequence of its pieces, so that strings.Contains is
\* a search for a run of pieces.
GithubCom == <<"github", ".", "com">>

Contains(str, substr) ==
    \E i \in 0..(Len(str) - Len(substr)) :
        SubSeq(str, i + 1, i + Len(substr)) = substr

\* apps.json or hosts.json: absent, not JSON, or a map from host to the
\* entry with its oauth_token.
Absent == [kind |-> "absent"]
Invalid == [kind |-> "invalid"]
Hosts(entries) == [kind |-> "map", entries |-> entries]
Entry(host, tok) == [host |-> host, oauth_token |-> tok]

\* The tokens of the entries that pass line 113; a Go map is ranged over
\* in an unspecified order, so any of them can be the first.
Usable(file) ==
    IF file.kind # "map" THEN {}
    ELSE {e.oauth_token : e \in {x \in file.entries :
                Contains(x.host, GithubCom) /\ x.oauth_token # ""}}

\* hosts.json tried before apps.json.
loadOAuthToken_HostsFirst(dir) ==
    IF Usable(dir.hosts) # {} THEN Usable(dir.hosts) ELSE Usable(dir.apps)

\* loadOAuthToken: the tokens it can return; none when it returns the
\* error.  apps.json is tried before hosts.json.
loadOAuthToken(dir) ==
    IF Usable(dir.apps) # {} THEN Usable(dir.apps) ELSE Usable(dir.hosts)

\* The config directories a process is started with.
UsableConfig ==
    [apps |-> Hosts({Entry(GithubCom, "gho_a")}),
     hosts |-> Hosts({Entry(<<"api", ".">> \o GithubCom, "gho_b")})]

ConfigDirs ==
    { [apps |-> Absent, hosts |-> Absent],
      [apps |-> Invalid,
       hosts |-> Hosts({Entry(<<"gitlab", ".", "com">>, "glpat"),
                        Entry(GithubCom, "")})],
      [apps |-> Hosts({Entry(<<"gitlab", ".", "com">>, "glpat")}),
       hosts |-> Invalid],
      UsableConfig }

\* The contents a credential file can have, its tokens being a and b.
CredentialFiles(a, b) ==
    { Absent, Invalid, Hosts({}),
      Hosts({Entry(<<"gitlab", ".", "com">>, a)}),
      Hosts({Entry(GithubCom, "")}),
      Hosts({Entry(GithubCom, a)}),
      Hosts({Entry(GithubCom, a), Entry(<<"api", ".">> \o GithubCom, b)}),
      Hosts({Entry(<<"gitlab", ".", "com">>, a),
             Entry(GithubCom \o <<":", "Iv1">>, b)}) }

CredentialDirs ==
    [apps : CredentialFiles("gho_a1", "gho_a2"),
     hosts : CredentialFiles("gho_h1", "gho_h2")]

\* refreshLoop's timer before it is set.
NoTimer == [dur |-> 0, from |-> 0]

\* ------------------------------------------------------- configuration
\* An environment variable: not set, or set to a value.
Unset == [set |-> FALSE]
Set(v) == [set |-> TRUE, val |-> v]

getEnv(e, key, def) == IF e[key].set THEN e[key].val ELSE def

\* What randomToken() generates when COPILOT_TOKEN is not set.
RandomToken == <<"r4nd0m">>

\* findCopilotToken: the oauth_token of the first entry of apps.json that
\* has one, whatever its host, in the map's iteration order; "" when the
\* file is missing, is not JSON or has no such entry.
findCopilotToken(dir) ==
    IF dir.apps.kind # "map" THEN {""}
    ELSE LET toks == {e.oauth_token :
                         e \in {x \in dir.apps.entries : x.oauth_token # ""}}
         IN  IF toks = {} THEN {""} ELSE toks

\* config.Load: the configurations it can return.  It never returns an
\* error.
Load(e, dir) ==
    LET token == getEnv(e, "COPILOT_OAUTH_TOKEN", "")
    IN  { [CopilotToken |-> getEnv(e, "COPILOT_TOKEN", RandomToken),
           DefaultModel |-> getEnv(e, "DEFAULT_MODEL", ""),
           CopilotOAuthToken |-> tok] :
              tok \in IF token = "" THEN findCopilotToken(dir) ELSE {token} }

\* Before config.Load has returned.
NoConfig == [loaded |-> FALSE]

\* ------------------------------------------------------- HTTP requests
StatusOK == 200
StatusNoContent == 204
StatusBadRequest == 400
StatusUnauthorized == 401
StatusForbidden == 403
StatusNotFound == 404
StatusTooManyRequests == 429
StatusInternalServerError == 500
StatusBadGateway == 502
StatusServiceUnavailable == 503

\* A header value is the sequence of its pieces, so that
\* strings.HasPrefix and strings.TrimPrefix are operations on a prefix.
Bearer == <<"Bearer", " ">>

HasPrefix(str, prefix) ==
    Len(str) >= Len(prefix) /\ SubSeq(str, 1, Len(prefix)) = prefix

TrimPrefix(str, prefix) ==
    IF HasPrefix(str, prefix) THEN SubSeq(str, Len(prefix) + 1, Len(str))
    ELSE str

\* JSON values; a decoded object is a Go map[string]interface{}: a
\* function from its keys.  Indexing the map with a key it does not have
\* gives nil, as a JSON null does.
JNull == [t |-> "null"]
JString(v) == [t |-> "s", v |-> v]
Get(m, k) == IF k \in DOMAIN m THEN m[k] ELSE JNull
Put(m, k, v) == [x \in DOMAIN m \cup {k} |-> IF x = k THEN v ELSE m[x]]
Delete(m, k) == [x \in DOMAIN m \ {k} |-> m[x]]

\* A request body: not JSON, or a JSON object.
BadJSON == [valid |-> FALSE]
Object(fields) == [valid |-> TRUE, fields |-> fields]

NoRequest == [none |-> TRUE]

\* The paths the router has a handler for, and the handler of each.
Routes ==
    [p \in {"/healthz", "/v1/chat/completions", "/v1/embeddings",
            "/v1/messages", "/v1/models"} |->
        CASE p = "/healthz" -> "health"
          [] p = "/v1/chat/completions" -> "chat"
          [] p = "/v1/embeddings" -> "embeddings"
          [] p = "/v1/messages" -> "messages"
          [] p = "/v1/models" -> "models"]

\* The three handlers that forward to api.githubcopilot.com.
Proxies == {"chat", "embeddings", "messages"}

\* The requests a client sends.
Paths == DOMAIN Routes \cup {"/v1/unknown"}
Methods == {"POST", "OPTIONS"}
AuthHeaders ==
    { <<>>,
      <<"Basic", " ", "s3cret">>,
      <<"bearer", " ", "s3cret">>,
      <<"Bearer">>,
      Bearer,
      Bearer \o <<"wr0ng">>,
      Bearer \o <<"s3cret">>,
      Bearer \o <<"s3cret", "x">> }
Bodies ==
    { BadJSON,
      Object([messages |-> JString("hi")]),
      Object([messages |-> JString("hi"), model |-> JNull]),
      Object([messages |-> JString("hi"), model |-> JString("")]),
      Object([messages |-> JString("hi"), model |-> JString("gpt-4.1")]),
      Object([messages |-> JString("hi"), model |-> JString("gpt-4.1"),
              tools |-> JString("search")]) }
Requests ==
    [method : Methods, path : Paths, auth : AuthHeaders, body : Bodies]

\* The environments the process is started in.
Environments(oauth) ==
    [COPILOT_TOKEN : {Unset, Set(<<>>), Set(<<"s3cret">>)},
     DEFAULT_MODEL : {Unset, Set("gpt-4o")},
     COPILOT_OAUTH_TOKEN : oauth]

\* -------------------------------------------------------- ModelsCache
\* 6*time.Hour, the ttl main constructs the cache with, in seconds.
TTL == 21600

\* The zero time.Time: time.Since of it is the largest Duration.
ZeroTime == 0

\* A nil *ModelsCache.
NilCache == [nil |-> TRUE]

\* The struct a non-nil *ModelsCache points to (apiToken is left out:
\* it is only sent to the catalog).
ModelsCache(data, at, ttl) ==
    [nil |-> FALSE, modelsJSON |-> data, lastFetch |-> at, ttl |-> ttl]

\* What the catalog answers to refresh: status 0 is a transport error;
\* a body is its JSON tokens, and is a JSON array when it begins with [.
Answers ==
    [status : {0, StatusUnauthorized}, body : {<<>>}]
        \cup [status : {StatusOK},
              body : { <<>>, <<"{", "}">>, <<"[", "]">>,
                       <<"[", "gpt-4.1", "]">> }]

\* json.Unmarshal(data, &js) with js a []interface{}.
IsArray(data) == Len(data) > 0 /\ Head(data) = "["

\* refresh on the cache c when the catalog answers a: the error it
\* returns and the cache it leaves.
refresh(c, a) ==
    IF a.status = 0 THEN [err |-> "failed to fetch models", cache |-> c]
    ELSE IF a.status # StatusOK THEN [err |-> "models API error", cache |-> c]
    ELSE IF ~IsArray(a.body) THEN [err |-> "invalid models JSON", cache |-> c]
    ELSE [err |-> "",
          cache |-> [c EXCEPT !.modelsJSON = a.body, !.lastFetch = now]]

\* What NewModelsCache returns as its cache: nil when its refresh failed.
NewModelsCache(ttl) ==
    { IF refresh(ModelsCache(<<>>, ZeroTime, ttl), a).err # "" THEN NilCache
      ELSE refresh(ModelsCache(<<>>, ZeroTime, ttl), a).cache : a \in Answers }

\* expired := time.Since(c.lastFetch) > c.ttl
expired_AtTTL(c) == c.lastFetch = ZeroTime \/ now - c.lastFetch >= c.ttl

expired(c) == c.lastFetch = ZeroTime \/ now - c.lastFetch > c.ttl

\* No GetModels has returned yet.
NoModels == [models |-> <<>>, err |-> ""]

\* GetModels on a receiver that is not nil: the whole method.  Its one
\* access to the cache is the read under c.mu.RLock, which refresh never
\* holds across its request.
GetModels ==
    /\ ~modelsCache.nil
    /\ LET models == modelsCache.modelsJSON
       IN  /\ refreshing' =
                  IF ~expired(modelsCache) /\ Len(models) > 0 THEN refreshing
                  ELSE refreshing + 1
           /\ got' = IF Len(models) > 0 THEN [models |-> models, err |-> ""]
                     ELSE [models |-> <<>>, err |-> "models not available"]
    /\ UNCHANGED modelsCache

\* No configuration loaded and no router: the token manager on its own.
NoServer ==
    /\ env = [COPILOT_TOKEN |-> Unset, DEFAULT_MODEL |-> Unset,
              COPILOT_OAUTH_TOKEN |-> Unset]
    /\ cfg = NoConfig
    /\ req = NoRequest
    /\ hpc = "none"
    /\ resp = 0
    /\ sent = <<>>
    /\ modelsCache = NilCache
    /\ refreshing = 0
    /\ got = NoModels

\* ---------------------------------------------------------------- Init
InitToken == CopilotToken("t0", StartTime + TokenTTL)

\* The running program, started on one of the token files and with one of
\* the left-over lock markers.
Manager(tokenFiles, lockFiles) ==
    /\ now = StartTime
    /\ issued = 0
    /\ tokenFile \in tokenFiles
    /\ tempFile = NoFile
    /\ lockFile \in lockFiles
    /\ githubToken = [p \in Procs |->
                         IF tokenFile.exists /\ WellFormed(tokenFile.data)
                         THEN Unmarshal(tokenFile.data)
                         ELSE NilToken]
    /\ isSelfWriting = [p \in Procs |-> FALSE]
    /\ lastMod = [p \in Procs |-> 0]
    /\ wtimer = [p \in Procs |-> 0]
    /\ wpc = [p \in Procs |-> "stat"]
    /\ pc = [t \in Threads |-> "idle"]
    /\ snap = [t \in Threads |-> NilToken]
    /\ attempts = [t \in Threads |-> 0]
    /\ fetched = [t \in Threads |-> NilToken]
    /\ saving = [t \in Threads |-> NilToken]
    /\ fd = [t \in Threads |-> "closed"]
    /\ rerr = [t \in Threads |-> ""]
    /\ ret = [t \in Threads |-> [val |-> "", err |-> ""]]
    /\ batch = {}
    /\ creds = UsableConfig
    /\ mgr = [p \in Procs |-> "running"]
    /\ oauthToken = [p \in Procs |-> "gho_a"]
    /\ rpc = [p \in Procs |-> "off"]
    /\ sleep = [p \in Procs |-> NoTimer]
    /\ cancelled = [p \in Procs |-> FALSE]
    /\ cpc = [p \in Procs |-> "idle"]
    /\ loopExp = 0

\* The token manager used on its own: no configuration loaded, no router.
InitWith(tokenFiles, lockFiles) == Manager(tokenFiles, lockFiles) /\ NoServer

Init ==
    InitWith({NoFile, File(Marshal(InitToken), StartTime)},
             {NoLock, Lock(StartTime - StaleLockAge, "crashed")})

sharedVars == <<issued, tokenFile, tempFile, lockFile, githubToken, isSelfWriting>>
watchVars == <<lastMod, wpc>>
callerVars == <<pc, snap, attempts, fetched, saving, fd, rerr, ret, batch>>

\* The caller is inside refreshToken.
InRefresh(t) ==
    pc[t] \in {"lock", "reload", "recheck", "exchange", "set", "save", "open",
               "write", "rename", "saved"}

\* ------------------------------------------------------------ GetToken
\* tm.mu.RLock(); token := tm.githubToken; tm.mu.RUnlock()
GetTokenRead(t) ==
    /\ pc[t] = "idle"
    /\ snap' = [snap EXCEPT ![t] = githubToken[ProcOf(t)]]
    /\ pc' = [pc EXCEPT ![t] = "check"]
    /\ UNCHANGED <<now, fixedVars, webVars, sharedVars, watchVars, attempts, fetched, saving, fd,
                   rerr, ret,
                   batch, lifeVars>>

\* Mutant: the fast path returns no value.
FastResult_Empty(token) == [val |-> "", err |-> ""]

\* What GetToken returns on its fast path.
FastResult(token) == [val |-> token.Token, err |-> ""]

\* if token != nil && token.ExpiresAt > now+120 { return token.Token, nil }
\* and otherwise the call of refreshToken(ctx, true), whose force skips
\* the isTokenValid test.
GetTokenCheck(t) ==
    /\ pc[t] = "check"
    /\ IF TokenValid(snap[t], now)
       THEN /\ ret' = [ret EXCEPT ![t] = FastResult(snap[t])]
            /\ pc' = [pc EXCEPT ![t] = "done"]
       ELSE /\ pc' = [pc EXCEPT ![t] = "lock"]
            /\ ret' = ret
    /\ snap' = [snap EXCEPT ![t] = NilToken]
    /\ batch' = IF pc'[t] = "lock" /\ \E u \in Callers : InRefresh(u)
                THEN batch \cup {t} \cup {u \in Callers : InRefresh(u)}
                ELSE batch
    /\ UNCHANGED <<now, fixedVars, webVars, sharedVars, watchVars, attempts, fetched, saving, fd,
                   rerr, lifeVars>>

\* Mutant: on an error the cached token is returned with it.
SlowResult_Stale(err, token) ==
    IF token = NilToken THEN [val |-> "", err |-> IF err # "" THEN err ELSE "unavailable"]
    ELSE [val |-> token.Token, err |-> err]

\* What GetToken returns once refreshToken has returned err, the cache
\* holding token.
SlowResult(err, token) ==
    IF err # "" THEN [val |-> "", err |-> err]
    ELSE IF token = NilToken THEN [val |-> "", err |-> "unavailable"]
    ELSE [val |-> token.Token, err |-> ""]

\* if err := tm.refreshToken(ctx, true); err != nil { return "", err } and
\* the read of tm.githubToken under RLock.
GetTokenReturn(t) ==
    /\ pc[t] = "return"
    /\ ret' = [ret EXCEPT ![t] = SlowResult(rerr[t], githubToken[ProcOf(t)])]
    /\ pc' = [pc EXCEPT ![t] = "done"]
    /\ UNCHANGED <<now, fixedVars, webVars, sharedVars, watchVars, snap, attempts, fetched, saving,
                   fd, rerr,
                   batch, lifeVars>>

\* -------------------------------------------------------- refreshToken
\* refreshToken's lockAcquired: the caller is past a successful
\* acquireLock and before its deferred releaseLock.
lockAcquired(t) ==
    pc[t] \in {"exchange", "set", "save", "open", "write", "rename", "saved"}

\* acquireLock: os.OpenFile(lockPath, os.O_CREATE|os.O_EXCL, 0600)
acquireLock(t) == IF lockFile.exists THEN lockFile ELSE Lock(now, t)

\* releaseLock: os.Remove(lockPath), whatever marker is there.
releaseLock == NoLock

\* Mutant: the loop starts over after its last failure.
AfterExhaustion_Again == "lock"

\* if !lockAcquired: where refreshToken goes after the last failure.
AfterExhaustion == "reload"

\* One turn of the acquisition loop: acquireLock, and time.Sleep after a
\* failure; after the last failure also the 5 second wait.
AcquireLock(t) ==
    /\ pc[t] = "lock"
    /\ lockFile' = acquireLock(t)
    /\ IF lockFile' # lockFile
       THEN /\ pc' = [pc EXCEPT ![t] = "exchange"]
            /\ attempts' = [attempts EXCEPT ![t] = 0]
       ELSE /\ pc' = [pc EXCEPT ![t] = IF attempts[t] + 1 < LockAttempts
                                       THEN "lock" ELSE AfterExhaustion]
            /\ attempts' = [attempts EXCEPT ![t] = IF attempts[t] + 1 < LockAttempts
                                                   THEN @ + 1 ELSE 0]
    /\ UNCHANGED <<now, fixedVars, webVars, issued, tokenFile, tempFile, githubToken, isSelfWriting,
                   watchVars, snap, fetched, saving, fd, rerr, ret,
                   batch, lifeVars>>

\* _ = tm.loadTokenFromFile() of the lock-exhaustion path.
ReloadAfterWait(t) ==
    /\ pc[t] = "reload"
    /\ githubToken' = [githubToken EXCEPT ![ProcOf(t)] = LoadedToken(ProcOf(t))]
    /\ pc' = [pc EXCEPT ![t] = "recheck"]
    /\ UNCHANGED <<now, fixedVars, webVars, issued, tokenFile, tempFile, lockFile, isSelfWriting,
                   watchVars, snap, attempts, fetched, saving, fd, rerr, ret,
                   batch, lifeVars>>

\* Mutant: any cached token counts, whatever its expiry.
ExhaustedResult_AnyToken(p) == IF githubToken[p] # NilToken THEN "" ELSE "lock"

\* What refreshToken returns when the lock could not be acquired:
\* if tm.isTokenValid() { return nil }; return errors.New(...)
ExhaustedResult(p) == IF isTokenValid(p) THEN "" ELSE "lock"

RecheckAfterWait(t) ==
    /\ pc[t] = "recheck"
    /\ rerr' = [rerr EXCEPT ![t] = ExhaustedResult(ProcOf(t))]
    /\ pc' = [pc EXCEPT ![t] = "return"]
    /\ UNCHANGED <<now, fixedVars, webVars, sharedVars, watchVars, snap, attempts, fetched, saving,
                   fd, ret,
                   batch, lifeVars>>

\* Mutant: the error paths return without releasing.
LockAfterError_Kept == lockFile

\* The lock marker once refreshToken has returned an error after the
\* acquisition (defer releaseLock(lockPath)).
LockAfterError == releaseLock

\* The exits of refreshToken between the acquisition and the cache update.
\* "request": http.NewRequestWithContext fails (a nil ctx); "network":
\* client.Do fails or times out; "status": a status other than 200;
\* "decode": the body is not JSON.
ExchangeFailures == {"request", "network", "status", "decode"}

\* Mutant: after a failed exchange refreshToken starts over.
AfterExchangeError_Retry == "lock"

\* Where refreshToken goes on after a failed exchange: its return
\* statement (lines 197, 206, 210, 214).
AfterExchangeError == "return"

ExchangeFails(t) ==
    /\ pc[t] = "exchange"
    /\ \E e \in ExchangeFailures : rerr' = [rerr EXCEPT ![t] = e]
    /\ lockFile' = LockAfterError
    /\ pc' = [pc EXCEPT ![t] = AfterExchangeError]
    /\ UNCHANGED <<now, fixedVars, webVars, issued, tokenFile, tempFile, githubToken, isSelfWriting,
                   watchVars, snap, attempts, fetched, saving, fd, ret,
                   batch, lifeVars>>

\* The exchange answers 200 with the token the backend issues now.
ExchangeSucceeds(t) ==
    /\ pc[t] = "exchange"
    /\ issued' = issued + 1
    /\ fetched' = [fetched EXCEPT ![t] =
                      CopilotToken(TokenNames[issued + 1], now + TokenTTL)]
    /\ pc' = [pc EXCEPT ![t] = "set"]
    /\ UNCHANGED <<now, fixedVars, webVars, tokenFile, tempFile, lockFile, githubToken,
                   isSelfWriting, watchVars, snap, attempts, saving, fd, rerr,
                   ret,
                   batch, lifeVars>>

\* The bodies of a 200 answer that json.Decode accepts without giving the
\* CopilotToken both of its fields a value from the backend: the empty
\* object, a token without expires_at, and a token that has expired.
WeakBodies(name, t) ==
    { << [t |-> "{"], [t |-> "}"] >>,
      << [t |-> "{"], [t |-> "token", s |-> name], [t |-> "}"] >>,
      Marshal(CopilotToken(name, t)) }

\* The exchange answers 200 with such a body; Decode fills the fields the
\* body names and leaves the others zero.
ExchangeDelivers(t) ==
    /\ pc[t] = "exchange"
    /\ issued' = issued + 1
    /\ \E body \in WeakBodies(TokenNames[issued + 1], now) :
          fetched' = [fetched EXCEPT ![t] = Unmarshal(body)]
    /\ pc' = [pc EXCEPT ![t] = "set"]
    /\ UNCHANGED <<now, fixedVars, webVars, tokenFile, tempFile, lockFile, githubToken,
                   isSelfWriting, watchVars, snap, attempts, saving, fd, rerr,
                   ret, batch, lifeVars>>

\* tm.mu.Lock(); tm.githubToken = &token; tm.mu.Unlock()
SetToken(t) ==
    /\ pc[t] = "set"
    /\ githubToken' = [githubToken EXCEPT ![ProcOf(t)] = fetched[t]]
    /\ pc' = [pc EXCEPT ![t] = "save"]
    /\ UNCHANGED <<now, fixedVars, webVars, issued, tokenFile, tempFile, lockFile, isSelfWriting,
                   watchVars, snap, attempts, fetched, saving, fd, rerr, ret,
                   batch, lifeVars>>

\* ----------------------------------------------------- saveTokenToFile
\* tm.mu.RLock(); token := tm.githubToken; tm.mu.RUnlock()
SaveRead(t) ==
    /\ pc[t] = "save"
    /\ saving' = [saving EXCEPT ![t] = githubToken[ProcOf(t)]]
    /\ pc' = [pc EXCEPT ![t] = "open"]
    /\ UNCHANGED <<now, fixedVars, webVars, sharedVars, watchVars, snap, attempts, fetched, fd,
                   rerr, ret,
                   batch, lifeVars>>

\* tm.isSelfWriting = true, and os.WriteFile's open of the temporary file
\* with O_TRUNC: it empties the file that is there, or creates it.
SaveOpen(t) ==
    /\ pc[t] = "open"
    /\ isSelfWriting' = [isSelfWriting EXCEPT ![ProcOf(t)] = TRUE]
    /\ tempFile' = File(<<>>, now)
    /\ fd' = [fd EXCEPT ![t] = "temp"]
    /\ pc' = [pc EXCEPT ![t] = "write"]
    /\ UNCHANGED <<now, fixedVars, webVars, issued, tokenFile, lockFile, githubToken, watchVars,
                   snap, attempts, fetched, saving, rerr, ret,
                   batch, lifeVars>>

\* The open fails: saveTokenToFile returns the error (its defer clears the
\* flag it has set) and refreshToken returns it (its defer releases the
\* lock).
SaveOpenFails(t) ==
    /\ pc[t] = "open"
    /\ isSelfWriting' = [isSelfWriting EXCEPT ![ProcOf(t)] = FALSE]
    /\ rerr' = [rerr EXCEPT ![t] = "save"]
    /\ saving' = [saving EXCEPT ![t] = NilToken]
    /\ lockFile' = LockAfterError
    /\ pc' = [pc EXCEPT ![t] = "return"]
    /\ UNCHANGED <<now, fixedVars, webVars, issued, tokenFile, tempFile, githubToken, watchVars,
                   snap, attempts, fetched, fd, ret,
                   batch, lifeVars>>

\* os.WriteFile's write and close, on the file the descriptor refers to:
\* a rename in between has made that file token.json.
SaveWrite(t) ==
    /\ pc[t] = "write"
    /\ CASE fd[t] = "temp" ->
              /\ tempFile' = File(WriteAt0(tempFile.data, Marshal(saving[t])), now)
              /\ tokenFile' = tokenFile
         [] fd[t] = "target" ->
              /\ tokenFile' = File(WriteAt0(tokenFile.data, Marshal(saving[t])), now)
              /\ tempFile' = tempFile
         [] OTHER -> UNCHANGED <<tokenFile, tempFile>>
    /\ fd' = [fd EXCEPT ![t] = "closed"]
    /\ saving' = [saving EXCEPT ![t] = NilToken]
    /\ pc' = [pc EXCEPT ![t] = "rename"]
    /\ UNCHANGED <<now, fixedVars, webVars, issued, lockFile, githubToken, isSelfWriting, watchVars,
                   snap, attempts, fetched, rerr, ret,
                   batch, lifeVars>>

\* os.Rename(tempFile, tm.tokenFile): atomic; it fails when the temporary
\* file is gone.  Open descriptors follow their file.
SaveRename(t) ==
    /\ pc[t] = "rename"
    /\ IF tempFile.exists
       THEN /\ tokenFile' = tempFile
            /\ tempFile' = NoFile
            /\ fd' = [u \in Threads |-> CASE fd[u] = "temp" -> "target"
                                          [] fd[u] = "target" -> "unlinked"
                                          [] OTHER -> fd[u]]
            /\ rerr' = rerr
       ELSE /\ rerr' = [rerr EXCEPT ![t] = "save"]
            /\ UNCHANGED <<tokenFile, tempFile, fd>>
    /\ pc' = [pc EXCEPT ![t] = "saved"]
    /\ UNCHANGED <<now, fixedVars, webVars, issued, lockFile, githubToken, isSelfWriting, watchVars,
                   snap, attempts, fetched, saving, ret,
                   batch, lifeVars>>

\* The lock marker once refreshToken has returned from its last lines
\* (defer releaseLock(lockPath)).
LockAfterSave == releaseLock

\* saveTokenToFile's defer (tm.isSelfWriting = false), refreshToken's
\* return and its defer.
SaveReturn(t) ==
    /\ pc[t] = "saved"
    /\ isSelfWriting' = [isSelfWriting EXCEPT ![ProcOf(t)] = FALSE]
    /\ lockFile' = LockAfterSave
    /\ pc' = [pc EXCEPT ![t] = "return"]
    /\ UNCHANGED <<now, fixedVars, webVars, issued, tokenFile, tempFile, githubToken, watchVars,
                   snap, attempts, fetched, saving, fd, rerr, ret,
                   batch, lifeVars>>

\* ------------------------------------------------------ watchTokenFile
\* select's default branch (ctx is not done): os.Stat(tm.tokenFile), the
\* comparison with lastMod and the read of tm.isSelfWriting.
WatchStat(p) ==
    /\ wpc[p] = "stat"
    /\ ~cancelled[p]
    /\ IF tokenFile.exists /\ tokenFile.mtime # lastMod[p]
       THEN /\ lastMod' = [lastMod EXCEPT ![p] = tokenFile.mtime]
            /\ wpc' = [wpc EXCEPT ![p] = IF isSelfWriting[p] THEN "lockstat" ELSE "load"]
       ELSE /\ wpc' = [wpc EXCEPT ![p] = "lockstat"]
            /\ lastMod' = lastMod
    /\ UNCHANGED <<now, fixedVars, webVars, sharedVars, callerVars, lifeVars>>

\* _ = tm.loadTokenFromFile()
WatchLoad(p) ==
    /\ wpc[p] = "load"
    /\ githubToken' = [githubToken EXCEPT ![p] = LoadedToken(p)]
    /\ wpc' = [wpc EXCEPT ![p] = "lockstat"]
    /\ UNCHANGED <<now, fixedVars, webVars, issued, tokenFile, tempFile, lockFile, isSelfWriting,
                   lastMod, callerVars, lifeVars>>

\* Mutant: the age is measured in the wrong unit, so that no marker is
\* ever old enough.
IsStale_Millis(mtime, t) == t - mtime > StaleLockAge * 1000

\* age := time.Now().Unix() - info.ModTime().Unix(); age > 300
IsStale(mtime, t) == t - mtime > StaleLockAge

\* os.Stat(lockPath) and the age test; without a stale marker the
\* iteration ends in time.Sleep(2 * time.Second).
WatchLockStat(p) ==
    /\ wpc[p] = "lockstat"
    /\ wpc' = [wpc EXCEPT ![p] = IF lockFile.exists /\ IsStale(lockFile.mtime, now)
                                 THEN "remove" ELSE "stat"]
    /\ UNCHANGED <<now, fixedVars, webVars, sharedVars, lastMod, callerVars, lifeVars>>

\* _ = os.Remove(lockPath), and the sleep.
WatchRemove(p) ==
    /\ wpc[p] = "remove"
    /\ lockFile' = NoLock
    /\ wpc' = [wpc EXCEPT ![p] = "stat"]
    /\ UNCHANGED <<now, fixedVars, webVars, issued, tokenFile, tempFile, githubToken, isSelfWriting,
                   lastMod, callerVars, lifeVars>>

\* case <-ctx.Done(): return, with the deferred refreshWG.Done().
WatchExit(p) ==
    /\ wpc[p] = "stat"
    /\ cancelled[p]
    /\ wpc' = [wpc EXCEPT ![p] = "exited"]
    /\ UNCHANGED <<now, fixedVars, webVars, sharedVars, lastMod, callerVars, creds, mgr,
                   oauthToken, rpc, sleep, cancelled, cpc, loopExp>>

WatchInterval == 2

\* time.Sleep(2 * time.Second) returns: the sleep that began at wtimer is
\* over, and the loop goes back to its select.  time.Sleep takes no
\* context: nothing but the clock ends it.
WatchWake(p) ==
    /\ wpc[p] = "sleep"
    /\ now >= wtimer[p] + WatchInterval
    /\ wpc' = [wpc EXCEPT ![p] = "stat"]
    /\ UNCHANGED <<now, fixedVars, webVars, sharedVars, lastMod, callerVars,
                   lifeVars>>

\* ----------------------------------------------------- NewTokenManager
\* What NewTokenManager returns, given the tokens loadOAuthToken can
\* return: (nil, err) or (tm, nil).
NewResult(found) == IF found = {} THEN "failed" ELSE "running"

\* Mutant: the goroutines are started before the error is looked at.
LoopsStarted_BeforeCheck(result) == TRUE

\* The two go statements are reached only after the error return.
LoopsStarted(result) == result = "running"

\* Mutant: a file that cannot be loaded leaves a zero token in the cache.
StartupToken_Zero(p) ==
    IF tokenFile.exists /\ WellFormed(tokenFile.data)
    THEN Unmarshal(tokenFile.data)
    ELSE CopilotToken("", 0)

\* _ = tm.loadTokenFromFile() on the new manager, whose cache is nil.
StartupToken(p) == LoadedToken(p)

NewTokenManager(p) ==
    /\ mgr[p] = "new"
    /\ LET found == loadOAuthToken(creds)
           result == NewResult(found)
       IN  /\ mgr' = [mgr EXCEPT ![p] = result]
           /\ \E tok \in (IF found = {} THEN {""} ELSE found) :
                 oauthToken' = [oauthToken EXCEPT ![p] = tok]
           /\ githubToken' = IF result = "running"
                             THEN [githubToken EXCEPT ![p] = StartupToken(p)]
                             ELSE githubToken
           /\ rpc' = IF LoopsStarted(result)
                     THEN [rpc EXCEPT ![p] = "select"] ELSE rpc
           /\ wpc' = IF LoopsStarted(result)
                     THEN [wpc EXCEPT ![p] = "stat"] ELSE wpc
    /\ UNCHANGED <<now, fixedVars, webVars, issued, tokenFile, tempFile, lockFile, isSelfWriting,
                   lastMod, callerVars, creds, sleep, cancelled, cpc, loopExp>>

\* --------------------------------------------------------- refreshLoop
\* The select at the top of the loop: return when ctx is done, else the
\* default branch.
LoopSelect(l) ==
    /\ rpc[ProcOf(l)] = "select"
    /\ rpc' = [rpc EXCEPT ![ProcOf(l)] = IF cancelled[ProcOf(l)]
                                         THEN "exited" ELSE "call"]
    /\ UNCHANGED <<now, fixedVars, webVars, sharedVars, watchVars, callerVars, creds, mgr,
                   oauthToken, sleep, cancelled, cpc, loopExp>>

\* Mutant: the validity test is skipped, as with force.
SkipRefresh_Never(force, p) == FALSE

\* if !force && tm.isTokenValid() { return nil }
SkipRefresh(force, p) == ~force /\ isTokenValid(p)

\* _ = tm.refreshToken(ctx, false): its first statement.
LoopRefresh(l) ==
    /\ rpc[ProcOf(l)] = "call"
    /\ IF SkipRefresh(FALSE, ProcOf(l))
       THEN /\ rpc' = [rpc EXCEPT ![ProcOf(l)] = "compute"]
            /\ pc' = pc
       ELSE /\ rpc' = [rpc EXCEPT ![ProcOf(l)] = "refresh"]
            /\ pc' = [pc EXCEPT ![l] = "lock"]
    /\ UNCHANGED <<now, fixedVars, webVars, sharedVars, watchVars, snap, attempts, fetched, saving,
                   fd, rerr, ret, batch, creds, mgr, oauthToken, sleep,
                   cancelled, cpc, loopExp>>

\* refreshToken has returned to the loop, which drops the error.
LoopRefreshReturns(l) ==
    /\ rpc[ProcOf(l)] = "refresh"
    /\ pc[l] = "return"
    /\ pc' = [pc EXCEPT ![l] = "idle"]
    /\ rerr' = [rerr EXCEPT ![l] = ""]
    /\ fetched' = [fetched EXCEPT ![l] = NilToken]
    /\ rpc' = [rpc EXCEPT ![ProcOf(l)] = "compute"]
    /\ UNCHANGED <<now, fixedVars, webVars, sharedVars, watchVars, snap, attempts, saving, fd, ret,
                   batch, creds, mgr, oauthToken, sleep, cancelled, cpc,
                   loopExp>>

FallbackSleep == 300

\* int64(x) of a non-negative float64 given in half seconds.
Truncate(halves) == halves \div 2

\* exp := int64(ExpiresAt); if exp > now+120 { sleep = exp-now-120 }, for
\* an ExpiresAt given in half seconds; the 5 minutes otherwise.
SleepFor(halves, t) ==
    IF Truncate(halves) > t + 120
    THEN Truncate(halves) - t - 120
    ELSE FallbackSleep

\* The sleep the loop computes under RLock from the cached token.
LoopSleep(token, t) ==
    IF token = NilToken THEN FallbackSleep ELSE SleepFor(2 * token.ExpiresAt, t)

\* The same computation on a cached token whose ExpiresAt has a fraction:
\* loopExp half seconds.
LoopComputeFloat(l) ==
    /\ rpc[ProcOf(l)] = "compute"
    /\ sleep' = [sleep EXCEPT ![ProcOf(l)] =
                    [dur |-> SleepFor(loopExp, now), from |-> now]]
    /\ rpc' = [rpc EXCEPT ![ProcOf(l)] = "sleep"]
    /\ UNCHANGED <<now, fixedVars, webVars, sharedVars, watchVars, callerVars, creds, mgr,
                   oauthToken, cancelled, cpc, loopExp>>

LoopCompute(l) ==
    /\ rpc[ProcOf(l)] = "compute"
    /\ sleep' = [sleep EXCEPT ![ProcOf(l)] =
                    [dur |-> LoopSleep(githubToken[ProcOf(l)], now), from |-> now]]
    /\ rpc' = [rpc EXCEPT ![ProcOf(l)] = "sleep"]
    /\ UNCHANGED <<now, fixedVars, webVars, sharedVars, watchVars, callerVars, creds, mgr,
                   oauthToken, cancelled, cpc, loopExp>>

\* case <-time.After(sleep): the timer has fired.
LoopWake(l) ==
    /\ rpc[ProcOf(l)] = "sleep"
    /\ now >= sleep[ProcOf(l)].from + sleep[ProcOf(l)].dur
    /\ sleep' = [sleep EXCEPT ![ProcOf(l)] = NoTimer]
    /\ rpc' = [rpc EXCEPT ![ProcOf(l)] = "select"]
    /\ UNCHANGED <<now, fixedVars, webVars, sharedVars, watchVars, callerVars, creds, mgr,
                   oauthToken, cancelled, cpc, loopExp>>

\* case <-ctx.Done(): return, from the select around the sleep.
LoopCancelled(l) ==
    /\ rpc[ProcOf(l)] = "sleep"
    /\ cancelled[ProcOf(l)]
    /\ sleep' = [sleep EXCEPT ![ProcOf(l)] = NoTimer]
    /\ rpc' = [rpc EXCEPT ![ProcOf(l)] = "exited"]
    /\ UNCHANGED <<now, fixedVars, webVars, sharedVars, watchVars, callerVars, creds, mgr,
                   oauthToken, cancelled, cpc, loopExp>>

\* --------------------------------------------------------------- Close
\* The context given to NewTokenManager is cancelled (main's signal
\* context).
CtxCancel(p) ==
    /\ mgr[p] = "running"
    /\ ~cancelled[p]
    /\ cancelled' = [cancelled EXCEPT ![p] = TRUE]
    /\ UNCHANGED <<now, fixedVars, webVars, sharedVars, watchVars, callerVars, creds, mgr,
                   oauthToken, rpc, sleep, cpc, loopExp>>

\* tm.refreshCancel()
CloseCancel(p) ==
    /\ mgr[p] = "running"
    /\ cpc[p] = "idle"
    /\ cancelled' = [cancelled EXCEPT ![p] = TRUE]
    /\ cpc' = [cpc EXCEPT ![p] = "wait"]
    /\ UNCHANGED <<now, fixedVars, webVars, sharedVars, watchVars, callerVars, creds, mgr,
                   oauthToken, rpc, sleep, loopExp>>

\* Mutant: refreshWG.Add(1), so that Wait returns once refreshLoop has
\* returned.
refreshWG_AddOne(p) == IF rpc[p] = "exited" THEN 0 ELSE 1

\* The counter of tm.refreshWG: Add(2), and a Done by each goroutine that
\* has returned.
refreshWG(p) ==
    (IF rpc[p] = "exited" THEN 0 ELSE 1) + (IF wpc[p] = "exited" THEN 0 ELSE 1)

\* tm.refreshWG.Wait() returns, and Close with it.
CloseWait(p) ==
    /\ cpc[p] = "wait"
    /\ refreshWG(p) = 0
    /\ cpc' = [cpc EXCEPT ![p] = "returned"]
    /\ UNCHANGED <<now, fixedVars, webVars, sharedVars, watchVars, callerVars, creds, mgr,
                   oauthToken, rpc, sleep, cancelled, loopExp>>

\* -------------------------------------------------------------- router
\* The variables of the token manager.
managerVars == <<now, fixedVars, sharedVars, watchVars, callerVars, lifeVars>>

\* The goroutine that serves the request; it is the one that calls
\* GetToken.
Server == "a1"

\* The paths AuthMiddleware lets through without looking at the header.
Public == {"/healthz", "/v1/models"}

\* What AuthMiddleware answers: 0 when it calls the next handler.
authorize_AnyBearer(path, auth, token) ==
    IF path \in Public \/ HasPrefix(auth, Bearer) THEN 0
    ELSE StatusUnauthorized

authorize(path, auth, token) ==
    IF path \in Public THEN 0
    ELSE IF ~HasPrefix(auth, Bearer) THEN StatusUnauthorized
    ELSE IF TrimPrefix(auth, Bearer) = <<>>
              \/ TrimPrefix(auth, Bearer) # token THEN StatusForbidden
    ELSE 0

\* The handler writes the status and returns.
Answer(status) ==
    /\ resp' = status
    /\ hpc' = "done"

AuthMiddleware ==
    /\ hpc = "auth"
    /\ LET status == authorize(req.path, req.auth, cfg.CopilotToken)
       IN  IF status = 0 THEN hpc' = "cors" /\ resp' = resp
           ELSE Answer(status)
    /\ UNCHANGED <<managerVars, modelVars, env, cfg, req, sent>>

CORS ==
    /\ hpc = "cors"
    /\ IF req.method = "OPTIONS" THEN Answer(StatusNoContent)
       ELSE hpc' = "mux" /\ resp' = resp
    /\ UNCHANGED <<managerVars, modelVars, env, cfg, req, sent>>

\* http.ServeMux with the five patterns of NewRouter: none ends in a
\* slash, so each matches its own path only.
ServeMux ==
    /\ hpc = "mux"
    /\ IF req.path \in DOMAIN Routes
       THEN hpc' = Routes[req.path] /\ resp' = resp
       ELSE Answer(StatusNotFound)
    /\ UNCHANGED <<managerVars, modelVars, env, cfg, req, sent>>

healthHandler ==
    /\ hpc = "health"
    /\ Answer(StatusOK)
    /\ UNCHANGED <<managerVars, modelVars, env, cfg, req, sent>>

\* modelsCache.GetModels(ctx) on the pointer NewRouter was given: on a
\* nil pointer c.mu.RLock() panics, net/http recovers the panic and closes
\* the connection with nothing written.
modelsHandler ==
    /\ hpc = "models"
    /\ IF modelsCache.nil
       THEN hpc' = "panic" /\ resp' = resp /\ UNCHANGED modelVars
       ELSE /\ GetModels
            /\ Answer(IF got'.err # "" THEN StatusServiceUnavailable
                      ELSE StatusOK)
    /\ UNCHANGED <<managerVars, env, cfg, req, sent>>

\* A goroutine started by go c.refresh(context.Background()) returns.
BackgroundRefresh(a) ==
    /\ refreshing > 0
    /\ modelsCache' = refresh(modelsCache, a).cache
    /\ refreshing' = refreshing - 1
    /\ UNCHANGED <<managerVars, env, cfg, req, hpc, resp, sent, got>>

\* The handler's test of the error GetToken returned.
tokenFailed_Never(r) == FALSE

tokenFailed(r) == r.err # ""

\* "Read and possibly inject default model".
withDefaultModel(body, default) ==
    IF Get(body, "model") = JNull \/ Get(body, "model") = JString("")
    THEN IF default # "" THEN Put(body, "model", JString(default))
         ELSE Delete(body, "model")
    ELSE body

\* The map literal has the five keys whatever the request has; an absent
\* one gets the nil that indexing gives, and json.Marshal writes it as
\* null.
convertAnthropicToOpenAI(body) ==
    [k \in {"messages", "model", "max_tokens", "temperature", "stream"}
            \cup ({"tools", "tool_choice"} \cap DOMAIN body) |->
        Get(body, k)]

\* A proxying handler from the return of GetToken to client.Do: out is the
\* map it marshals into the forwarded body.
Forward(url, out) ==
    /\ pc[Server] = "done"
    /\ IF tokenFailed(ret[Server])
       THEN Answer(StatusInternalServerError) /\ sent' = sent
       ELSE IF ~req.body.valid
       THEN Answer(StatusBadRequest) /\ sent' = sent
       ELSE /\ sent' = Append(sent, [url |-> url, body |-> out,
                                     token |-> ret[Server].val])
            /\ hpc' = "await"
            /\ resp' = resp
    /\ UNCHANGED <<managerVars, modelVars, env, cfg, req>>

chatCompletionsHandler ==
    /\ hpc = "chat"
    /\ Forward("/chat/completions",
               IF req.body.valid
               THEN withDefaultModel(req.body.fields, cfg.DefaultModel)
               ELSE << >>)

embeddingsHandler ==
    /\ hpc = "embeddings"
    /\ Forward("/embeddings",
               IF req.body.valid
               THEN withDefaultModel(req.body.fields, cfg.DefaultModel)
               ELSE << >>)

anthropicHandler ==
    /\ hpc = "messages"
    /\ Forward("/chat/completions",
               IF req.body.valid
               THEN convertAnthropicToOpenAI(
                        withDefaultModel(req.body.fields, cfg.DefaultModel))
               ELSE << >>)

\* client.Do returns: the backend's status is passed on, a transport error
\* is a 502.
clientDo ==
    /\ hpc = "await"
    /\ \E status \in {StatusOK, StatusTooManyRequests, StatusBadGateway} :
          Answer(status)
    /\ UNCHANGED <<managerVars, modelVars, env, cfg, req, sent>>

\* ---------------------------------------------------------------- main
\* cfg, err := config.Load(), main's first statement.
LoadConfig ==
    /\ cfg = NoConfig
    /\ cfg' \in Load(env, creds)
    /\ UNCHANGED <<managerVars, modelVars, env, req, hpc, resp, sent>>

\* ---------------------------------------------------------------- time
Tick ==
    /\ now < StartTime + MaxTicks
    /\ now' = now + 1
    /\ UNCHANGED <<fixedVars, webVars, sharedVars, watchVars, callerVars, lifeVars>>

\* ---------------------------------------------------------------- Next
\* The steps of refreshToken past its first statement.
RefreshStep(t) ==
    \/ AcquireLock(t)
    \/ ReloadAfterWait(t)
    \/ RecheckAfterWait(t)
    \/ ExchangeFails(t)
    \/ ExchangeSucceeds(t)
    \/ SetToken(t)
    \/ SaveRead(t)
    \/ SaveOpen(t)
    \/ SaveOpenFails(t)
    \/ SaveWrite(t)
    \/ SaveRename(t)
    \/ SaveReturn(t)

CallerStep(t) ==
    \/ GetTokenRead(t)
    \/ GetTokenCheck(t)
    \/ RefreshStep(t)
    \/ GetTokenReturn(t)

LoopStep(l) ==
    \/ LoopSelect(l)
    \/ LoopRefresh(l)
    \/ RefreshStep(l)
    \/ LoopRefreshReturns(l)
    \/ LoopCompute(l)
    \/ LoopWake(l)
    \/ LoopCancelled(l)

WatchStep(p) ==
    \/ WatchStat(p)
    \/ WatchLoad(p)
    \/ WatchLockStat(p)
    \/ WatchRemove(p)

\* The program with the callers C and the watchers of the processes P.
Run(C, P) ==
    \/ \E t \in C : CallerStep(t)
    \/ \E p \in P : WatchStep(p)
    \/ Tick

\* One request in each of the two processes.
Next == Run({"a1", "b1"}, Procs)

Spec == Init /\ [][Next]_vars

\* The watcher goroutines keep running: each iteration ends in a sleep of
\* two seconds, after which the Go scheduler runs the goroutine again.
WatchersRun == \A p \in Procs : WF_vars(WatchStep(p))

SpecFair == Spec /\ WatchersRun

\* The request goroutines run as well: a handler that has called
\* GetToken is scheduled until GetToken returns.
CallersRun == \A t \in {"a1", "b1"} : WF_vars(CallerStep(t))

SpecLive == Spec /\ WatchersRun /\ CallersRun

\* Two concurrent requests in one process.
NextThreads == Run({"a1", "a2"}, {"A"})

SpecThreads == Init /\ [][NextThreads]_vars

\* Process A with a backend that also gives the weak answers, started on
\* a token.json that may be the empty object.
InitBackend ==
    InitWith({NoFile, File(<< [t |-> "{"], [t |-> "}"] >>, StartTime)},
             {NoLock, Lock(StartTime - StaleLockAge, "crashed")})

NextBackend ==
    \/ NextThreads
    \/ \E t \in {"a1", "a2"} : ExchangeDelivers(t)

SpecBackend == InitBackend /\ [][NextBackend]_vars

\* Process A from before its construction to after its Close: the config
\* directory is any of ConfigDirs, token.json is missing, complete or cut
\* short.
Unstarted ==
    /\ now = StartTime
    /\ issued = 0
    /\ tokenFile \in {NoFile, File(Marshal(InitToken), StartTime),
                       File(<< [t |-> "{"] >>, StartTime)}
    /\ tempFile = NoFile
    /\ lockFile \in {NoLock, Lock(StartTime - StaleLockAge, "crashed")}
    /\ githubToken = [p \in Procs |-> NilToken]
    /\ isSelfWriting = [p \in Procs |-> FALSE]
    /\ lastMod = [p \in Procs |-> 0]
    /\ wtimer = [p \in Procs |-> 0]
    /\ wpc = [p \in Procs |-> "off"]
    /\ pc = [t \in Threads |-> "idle"]
    /\ snap = [t \in Threads |-> NilToken]
    /\ attempts = [t \in Threads |-> 0]
    /\ fetched = [t \in Threads |-> NilToken]
    /\ saving = [t \in Threads |-> NilToken]
    /\ fd = [t \in Threads |-> "closed"]
    /\ rerr = [t \in Threads |-> ""]
    /\ ret = [t \in Threads |-> [val |-> "", err |-> ""]]
    /\ batch = {}
    /\ creds \in ConfigDirs
    /\ mgr = [p \in Procs |-> "new"]
    /\ oauthToken = [p \in Procs |-> ""]
    /\ rpc = [p \in Procs |-> "off"]
    /\ sleep = [p \in Procs |-> NoTimer]
    /\ cancelled = [p \in Procs |-> FALSE]
    /\ cpc = [p \in Procs |-> "idle"]
    /\ loopExp = 0

InitLife == Unstarted /\ NoServer

\* The goroutines NewTokenManager starts, and the shutdown.
Background(p, l) ==
    \/ NewTokenManager(p)
    \/ LoopStep(l)
    \/ WatchStep(p)
    \/ WatchExit(p)
    \/ CtxCancel(p)
    \/ CloseCancel(p)
    \/ CloseWait(p)
    \/ Tick

\* A request handler calls GetToken on the manager it was given.
NextLife ==
    \/ Background("A", "loopA")
    \/ mgr["A"] = "running" /\ CallerStep("a1")

SpecLife == InitLife /\ [][NextLife]_vars

\* The manager of process A without requests, its goroutines scheduled:
\* refreshLoop and watchTokenFile never block for good (their sleeps and
\* the 15 second HTTP timeout are bounded), and Close, once called, runs
\* on.
NextShutdown == Background("A", "loopA")

SpecShutdown ==
    /\ InitLife
    /\ [][NextShutdown]_vars
    /\ WF_vars(LoopStep("loopA"))
    /\ WF_vars(WatchStep("A") \/ WatchExit("A"))
    /\ WF_vars(CloseWait("A"))

\* The refresh loop of process A about to compute its sleep, the cached
\* token's ExpiresAt being any multiple of half a second around
\* now + 120.
InitSleep ==
    /\ NoServer
    /\ now = StartTime
    /\ issued = 1
    /\ tokenFile = NoFile
    /\ tempFile = NoFile
    /\ lockFile = NoLock
    /\ githubToken = [p \in Procs |-> NilToken]
    /\ isSelfWriting = [p \in Procs |-> FALSE]
    /\ lastMod = [p \in Procs |-> 0]
    /\ wtimer = [p \in Procs |-> 0]
    /\ wpc = [p \in Procs |-> IF p = "A" THEN "stat" ELSE "off"]
    /\ pc = [t \in Threads |-> "idle"]
    /\ snap = [t \in Threads |-> NilToken]
    /\ attempts = [t \in Threads |-> 0]
    /\ fetched = [t \in Threads |-> NilToken]
    /\ saving = [t \in Threads |-> NilToken]
    /\ fd = [t \in Threads |-> "closed"]
    /\ rerr = [t \in Threads |-> ""]
    /\ ret = [t \in Threads |-> [val |-> "", err |-> ""]]
    /\ batch = {}
    /\ creds = UsableConfig
    /\ mgr = [p \in Procs |-> IF p = "A" THEN "running" ELSE "new"]
    /\ oauthToken = [p \in Procs |-> IF p = "A" THEN "gho_a" ELSE ""]
    /\ rpc = [p \in Procs |-> IF p = "A" THEN "compute" ELSE "off"]
    /\ sleep = [p \in Procs |-> NoTimer]
    /\ cancelled = [p \in Procs |-> FALSE]
    /\ cpc = [p \in Procs |-> "idle"]
    /\ loopExp \in (2 * (StartTime + 120) - 6) ..
                    (2 * (StartTime + 120) - 6 + ExpirySpan)

NextSleep ==
    \/ LoopComputeFloat("loopA")
    \/ Tick

SpecSleep == InitSleep /\ [][NextSleep]_vars

\* The same, started without a token.json that can be loaded.
InitCold == InitLife /\ ~(tokenFile.exists /\ WellFormed(tokenFile.data))

SpecColdStart == InitCold /\ [][NextLife]_vars

\* The two requests and the watcher of process A, all scheduled.
SpecThreadsLive ==
    /\ SpecThreads
    /\ WF_vars(WatchStep("A"))
    /\ \A t \in {"a1", "a2"} : WF_vars(CallerStep(t))

\* One request to the server of process A, whose token manager is
\* running: the request passes the middlewares and the router, and a
\* proxying handler calls GetToken first.
InitHttp ==
    /\ Manager({NoFile, File(Marshal(InitToken), StartTime)},
               {NoLock, Lock(StartTime - StaleLockAge, "crashed")})
    /\ env \in Environments({Unset})
    /\ cfg \in Load(env, creds)
    /\ req \in Requests
    /\ hpc = "auth"
    /\ resp = 0
    /\ sent = <<>>
    /\ modelsCache \in NewModelsCache(TTL)
    /\ refreshing = 0
    /\ got = NoModels

\* tokenManager.GetToken(ctx), called by a proxying handler.
GetTokenCall == hpc \in Proxies /\ CallerStep(Server)

NextHttp ==
    \/ AuthMiddleware
    \/ CORS
    \/ ServeMux
    \/ healthHandler
    \/ modelsHandler
    \/ GetTokenCall
    \/ chatCompletionsHandler
    \/ embeddingsHandler
    \/ anthropicHandler
    \/ clientDo
    \/ Tick

SpecHttp == InitHttp /\ [][NextHttp]_vars

\* main from its first statement: config.Load, then NewTokenManager(ctx),
\* which is not given the configuration; COPILOT_OAUTH_TOKEN is set or
\* not, the config directory is any of ConfigDirs.
InitConfig ==
    /\ Unstarted
    /\ tokenFile = NoFile
    /\ env \in [COPILOT_TOKEN : {Set(<<"s3cret">>)},
                DEFAULT_MODEL : {Unset},
                COPILOT_OAUTH_TOKEN : {Unset, Set("gho_env")}]
    /\ cfg = NoConfig
    /\ req = NoRequest
    /\ hpc = "none"
    /\ resp = 0
    /\ sent = <<>>
    /\ modelsCache = NilCache
    /\ refreshing = 0
    /\ got = NoModels

NextConfig ==
    \/ LoadConfig
    \/ cfg # NoConfig /\ Background("A", "loopA")
    \/ mgr["A"] = "running" /\ CallerStep("a1")

SpecConfig == InitConfig /\ [][NextConfig]_vars

\* NewTokenManager on every combination of apps.json and hosts.json.
InitLoader ==
    /\ NoServer
    /\ now = StartTime
    /\ issued = 0
    /\ tokenFile \in {NoFile, File(Marshal(InitToken), StartTime)}
    /\ tempFile = NoFile
    /\ lockFile = NoLock
    /\ githubToken = [p \in Procs |-> NilToken]
    /\ isSelfWriting = [p \in Procs |-> FALSE]
    /\ lastMod = [p \in Procs |-> 0]
    /\ wtimer = [p \in Procs |-> 0]
    /\ wpc = [p \in Procs |-> "off"]
    /\ pc = [t \in Threads |-> "idle"]
    /\ snap = [t \in Threads |-> NilToken]
    /\ attempts = [t \in Threads |-> 0]
    /\ fetched = [t \in Threads |-> NilToken]
    /\ saving = [t \in Threads |-> NilToken]
    /\ fd = [t \in Threads |-> "closed"]
    /\ rerr = [t \in Threads |-> ""]
    /\ ret = [t \in Threads |-> [val |-> "", err |-> ""]]
    /\ batch = {}
    /\ creds \in CredentialDirs
    /\ mgr = [p \in Procs |-> "new"]
    /\ oauthToken = [p \in Procs |-> ""]
    /\ rpc = [p \in Procs |-> "off"]
    /\ sleep = [p \in Procs |-> NoTimer]
    /\ cancelled = [p \in Procs |-> FALSE]
    /\ cpc = [p \in Procs |-> "idle"]
    /\ loopExp = 0

NextLoader == NewTokenManager("A")

SpecLoader == InitLoader /\ [][NextLoader]_vars

\* Process A with both of its goroutines asleep between two cycles:
\* refreshLoop in its select on ctx.Done and time.After, watchTokenFile in
\* the time.Sleep that began one or two seconds ago.  Another process may
\* have replaced token.json since the watcher last looked, and may have
\* left a lock marker.  The sleeps that follow the one in progress are
\* points of descheduling, as in the other specifications.
InitInterrupt ==
    /\ NoServer
    /\ now = StartTime
    /\ issued = 0
    /\ tokenFile = File(Marshal(InitToken), StartTime)
    /\ tempFile = NoFile
    /\ lockFile \in {NoLock, Lock(StartTime - StaleLockAge, "crashed")}
    /\ githubToken \in {[p \in Procs |-> tok] :
                          tok \in {InitToken,
                                   CopilotToken("old", StartTime + SafetyMargin)}}
    /\ isSelfWriting = [p \in Procs |-> FALSE]
    /\ lastMod \in {[p \in Procs |-> m] : m \in {StartTime - 1, StartTime}}
    /\ wpc = [p \in Procs |-> IF p = "A" THEN "sleep" ELSE "off"]
    /\ wtimer \in {[p \in Procs |-> IF p = "A" THEN t ELSE 0] :
                      t \in {StartTime - 2, StartTime - 1}}
    /\ pc = [t \in Threads |-> "idle"]
    /\ snap = [t \in Threads |-> NilToken]
    /\ attempts = [t \in Threads |-> 0]
    /\ fetched = [t \in Threads |-> NilToken]
    /\ saving = [t \in Threads |-> NilToken]
    /\ fd = [t \in Threads |-> "closed"]
    /\ rerr = [t \in Threads |-> ""]
    /\ ret = [t \in Threads |-> [val |-> "", err |-> ""]]
    /\ batch = {}
    /\ creds = UsableConfig
    /\ mgr = [p \in Procs |-> IF p = "A" THEN "running" ELSE "new"]
    /\ oauthToken = [p \in Procs |-> IF p = "A" THEN "gho_a" ELSE ""]
    /\ rpc = [p \in Procs |-> IF p = "A" THEN "sleep" ELSE "off"]
    /\ sleep \in {[p \in Procs |-> IF p = "A" THEN [dur |-> d, from |-> StartTime]
                                   ELSE NoTimer] : d \in {1, FallbackSleep}}
    /\ cancelled = [p \in Procs |-> FALSE]
    /\ cpc = [p \in Procs |-> "idle"]
    /\ loopExp = 0

NextInterrupt ==
    \/ LoopStep("loopA")
    \/ WatchWake("A")
    \/ WatchStep("A")
    \/ WatchExit("A")
    \/ CtxCancel("A")
    \/ CloseCancel("A")
    \/ CloseWait("A")
    \/ Tick

SpecInterrupt == InitInterrupt /\ [][NextInterrupt]_vars

\* Two requests in process A while the lock marker is absent, is held by
\* another process that never releases it, or was left by a crashed one.
\* Only the requests are scheduled: the watcher and the clock may stand
\* still.
InitHeld ==
    InitWith({NoFile, File(Marshal(InitToken), StartTime)},
             {NoLock, Lock(StartTime, "other"),
              Lock(StartTime - StaleLockAge, "crashed")})

SpecHeld ==
    /\ InitHeld
    /\ [][NextThreads]_vars
    /\ \A t \in {"a1", "a2"} : WF_vars(CallerStep(t))

\* One request alone in process A: nothing else touches the cache, so
\* that what GetToken read at its start is what the cache held when its
\* refreshToken call began.
NextAlone ==
    \/ CallerStep("a1")
    \/ Tick

SpecAlone == InitHeld /\ [][NextAlone]_vars

\* The models cache on its own over several TTLs: GetModels is called
\* again and again while the background refreshes it started return, on
\* every cache NewModelsCache constructs and on a ModelsCache{} that
\* nothing was loaded into.
InitModels ==
    /\ Manager({NoFile}, {NoLock})
    /\ env = [COPILOT_TOKEN |-> Unset, DEFAULT_MODEL |-> Unset,
              COPILOT_OAUTH_TOKEN |-> Unset]
    /\ cfg \in Load(env, creds)
    /\ req = NoRequest
    /\ hpc = "none"
    /\ resp = 0
    /\ sent = <<>>
    /\ modelsCache \in (NewModelsCache(TTL) \ {NilCache})
                          \cup {ModelsCache(<<>>, ZeroTime, 0)}
    /\ refreshing = 0
    /\ got = NoModels

\* c.GetModels(ctx), called by any goroutine.
GetModelsCall ==
    /\ refreshing < MaxRefreshes
    /\ GetModels
    /\ UNCHANGED <<managerVars, env, cfg, req, hpc, resp, sent>>

\* Half a TTL passes.
Later ==
    /\ now + TTL \div 2 <= StartTime + MaxTicks + MaxSpans * (TTL \div 2)
    /\ now' = now + TTL \div 2
    /\ UNCHANGED <<fixedVars, webVars, sharedVars, watchVars, callerVars,
                   lifeVars>>

NextModels ==
    \/ GetModelsCall
    \/ \E a \in Answers : BackgroundRefresh(a)
    \/ Tick
    \/ Later

SpecModels == InitModels /\ [][NextModels]_vars

\* ======================================================================
\* Properties
\* ======================================================================

\* The step of caller t that leaves position at.
Leaves(t, at) == pc[t] = at /\ pc'[t] # at

\* C1: a GetToken call whose cached token has expiresAt > now + 120 returns
\* exactly that token's value and no error, and neither of its two steps
\* (the read under RLock, the comparison and return) touches the backend,
\* the lock marker, the cache, the self-write flag or the token files.
C1_FastPath ==
    [][\A t \in Callers :
        /\ Leaves(t, "idle") =>
              /\ pc'[t] = "check"
              /\ snap'[t] = githubToken[ProcOf(t)]
              /\ UNCHANGED sharedVars
        /\ (Leaves(t, "check") /\ snap[t] # NilToken
                /\ snap[t].ExpiresAt > now + 120) =>
              /\ pc'[t] = "done"
              /\ ret'[t] = [val |-> snap[t].Token, err |-> ""]
              /\ UNCHANGED sharedVars]_vars

\* C1 witness: a1 has returned the startup token t0 on the fast path (no
\* marker was ever there, the other callers have not started).
C1_Witness ==
    /\ pc["a1"] = "done"
    /\ ret["a1"] = [val |-> "t0", err |-> ""]
    /\ \A t \in Callers \ {"a1"} : pc[t] = "idle"
    /\ now = StartTime
    /\ ~lockFile.exists

\* C2: a GetToken call that finds no token, or one with
\* expiresAt <= now + 120, enters refreshToken (forced: straight to the lock
\* loop) and returns only after refreshToken has returned: a caller reaches
\* "done" from the fast path or from "return", and "return" only from one
\* of refreshToken's return statements.
C2_SlowPath ==
    [][\A t \in Callers :
        /\ (Leaves(t, "check")
                /\ (snap[t] = NilToken \/ snap[t].ExpiresAt <= now + 120)) =>
              /\ pc'[t] = "lock"
              /\ ret'[t] = ret[t]
        /\ (pc'[t] = "done" /\ pc[t] # "done") =>
              \/ pc[t] = "return"
              \/ pc[t] = "check" /\ snap[t] # NilToken
                    /\ snap[t].ExpiresAt > now + 120
        /\ (pc'[t] = "return" /\ pc[t] # "return") =>
              pc[t] \in {"recheck", "exchange", "open", "saved"}
        /\ (InRefresh(t) /\ pc'[t] # pc[t]) => InRefresh(t)' \/ pc'[t] = "return"]_vars

\* C2 witness: the startup token t0 has come within the margin, and b1 has
\* returned the token t1 it fetched.
C2_Witness ==
    /\ pc["b1"] = "done"
    /\ fetched["b1"] # NilToken
    /\ ret["b1"] = [val |-> fetched["b1"].Token, err |-> ""]
    /\ now > StartTime
    /\ tokenFile.exists

\* C3: a GetToken call that returns an error returns the empty string
\* with it.
C3_FailClosed ==
    \A t \in Callers : (pc[t] = "done" /\ ret[t].err # "") => ret[t].val = ""

\* C3 witness: a1 has returned the persist error while the cache of its
\* process holds the token it fetched.
C3_Witness ==
    /\ pc["a1"] = "done"
    /\ ret["a1"].err = "save"
    /\ githubToken["A"] # NilToken
    /\ githubToken["A"] = fetched["a1"]

\* The caller's refreshToken performed an HTTP exchange.
Exchanged(t) == fetched[t] # NilToken \/ rerr[t] \in {"network", "status", "decode"}

\* C4: when callers whose forced refreshes overlapped have all returned
\* without error, exactly one of them performed a network exchange, and
\* the others returned the value of the token that one fetched.
C4_OneExchangePerBatch ==
    (batch # {} /\ \A t \in batch : pc[t] = "done" /\ ret[t].err = "") =>
        \E f \in batch :
            /\ Exchanged(f)
            /\ \A t \in batch \ {f} :
                  ~Exchanged(t) /\ ret[t].val = fetched[f].Token

\* C5: at most one caller, over all processes, is between its successful
\* acquireLock and its releaseLock.
C5_MutualExclusion ==
    Cardinality({t \in Callers : lockAcquired(t)}) <= 1

\* C6: whenever refreshToken returns after it acquired the lock, on the
\* error paths and on success, no lock marker is left at the lock path.
C6_ReleasedOnReturn ==
    [][\A t \in Callers :
        (lockAcquired(t) /\ pc'[t] = "return") => ~lockFile'.exists]_vars

\* C6 witness: a1 has returned the decode error and the marker is gone.
C6_Witness ==
    /\ pc["a1"] = "return"
    /\ rerr["a1"] = "decode"
    /\ ~lockFile.exists
    /\ pc["b1"] = "idle"

\* C7: token.json, whenever it exists, holds one complete record: the
\* JSON text of some token, never an empty or mixed file.
C7_AtomicPersistence ==
    tokenFile.exists =>
        /\ WellFormed(tokenFile.data)
        /\ tokenFile.data = Marshal(Unmarshal(tokenFile.data))

\* C8: refreshToken enters the lock-exhaustion path only on the failure of
\* its fifth acquireLock; on that path it performs no exchange and leaves
\* the lock marker alone, loads token.json into the cache when it holds a
\* record, and returns nil exactly when the cache then holds a token with
\* expiresAt > now + 120, and the lock error otherwise.
C8_LockExhaustion ==
    [][\A t \in Callers :
        /\ (pc'[t] = "reload" /\ pc[t] # "reload") =>
              /\ pc[t] = "lock"
              /\ attempts[t] = 4
              /\ lockFile.exists
              /\ UNCHANGED sharedVars
        /\ Leaves(t, "reload") =>
              /\ pc'[t] = "recheck"
              /\ UNCHANGED <<issued, tokenFile, tempFile, lockFile, isSelfWriting>>
              /\ (tokenFile.exists /\ WellFormed(tokenFile.data)) =>
                    Marshal(githubToken'[ProcOf(t)]) = tokenFile.data
              /\ \A p \in Procs \ {ProcOf(t)} : githubToken'[p] = githubToken[p]
        /\ Leaves(t, "recheck") =>
              /\ pc'[t] = "return"
              /\ UNCHANGED sharedVars
              /\ rerr'[t] \in {"", "lock"}
              /\ rerr'[t] = "" <=>
                    /\ githubToken[ProcOf(t)] # NilToken
                    /\ githubToken[ProcOf(t)].ExpiresAt > now + 120]_vars

\* C8 witness: b1 gave up on the lock that a1 held, and has returned nil
\* from refreshToken with the cache of B holding the token a1 fetched and
\* persisted.
C8_Witness ==
    /\ pc["b1"] = "return"
    /\ rerr["b1"] = ""
    /\ fetched["b1"] = NilToken
    /\ fetched["a1"] # NilToken
    /\ githubToken["B"] = fetched["a1"]
    /\ tokenFile.exists /\ tokenFile.data = Marshal(fetched["a1"])

\* C9: a lock marker older than 5 minutes does not stay: while the
\* watchers run, it is eventually removed, whether or not a refresh is
\* pending.
C9_StaleLockRecovery ==
    (lockFile.exists /\ now - lockFile.mtime > 300) ~> ~lockFile.exists

\* C9 witness: with no caller started, the watcher of A has found the
\* marker of a crashed holder older than 5 minutes and is about to remove
\* it.
C9_Witness ==
    /\ \A t \in Callers : pc[t] = "idle"
    /\ lockFile.exists /\ lockFile.owner = "crashed"
    /\ now - lockFile.mtime > 300
    /\ wpc["A"] = "remove"

\* C10: the token cached by a process is never replaced by a token with an
\* earlier expiresAt.
C10_MonotonicFreshness ==
    [][\A p \in Procs :
        (githubToken[p] # NilToken /\ githubToken'[p] # NilToken) =>
            githubToken'[p].ExpiresAt >= githubToken[p].ExpiresAt]_vars

\* The name of the token that token.json holds, "" without a complete
\* record.
PersistedName ==
    IF tokenFile.exists /\ WellFormed(tokenFile.data)
    THEN Unmarshal(tokenFile.data).Token ELSE ""

\* The caller's os.Rename has just replaced token.json.
Replaced(t) == pc[t] = "saved" /\ rerr[t] = ""

\* C11: once a caller's rename has replaced token.json with the record
\* of a token, the cached token of the running process A eventually equals
\* that record, unless token.json is written again with another token;
\* for every interleaving of the write with the refreshes and the
\* self-write flag of the process.
C11_EventualReconciliation ==
    \A t \in Callers : \A n \in {"t0", "t1", "t2"} :
        (Replaced(t) /\ PersistedName = n) ~>
            \/ PersistedName # n
            \/ githubToken["A"] = Unmarshal(tokenFile.data)

\* C12: with process A the only writer of token.json, the watcher of A
\* never goes on to reload the cache from a token.json that A's own
\* refresh has written: it reloads only the file found at startup.
C12_SelfWriteSuppression ==
    [][(wpc["A"] = "stat" /\ wpc'["A"] = "load") =>
          tokenFile = File(Marshal(InitToken), StartTime)]_vars

\* C13: whenever GetToken returns without error, the value it returns is
\* that of a token (the one it read, or the cached one) with
\* expiresAt > now + 120 at the moment of the return.
C13_ReturnsValidToken ==
    [][\A t \in Callers :
        (pc[t] # "done" /\ pc'[t] = "done" /\ ret'[t].err = "") =>
            \E tok \in {snap[t], githubToken[ProcOf(t)]} \ {NilToken} :
                /\ tok.Token = ret'[t].val
                /\ tok.ExpiresAt > now + 120]_vars

\* C14: the cache never holds a partially populated token, one without a
\* token value or without an expiry.
C14_NoPartialToken ==
    \A p \in Procs :
        githubToken[p] # NilToken =>
            githubToken[p].Token # "" /\ githubToken[p].ExpiresAt # 0

\* C15: when neither apps.json nor hosts.json yields an OAuth token,
\* NewTokenManager returns the error and no manager, and neither
\* refreshLoop nor watchTokenFile is ever started.
C15_NoCredentialNoManager ==
    \A p \in Procs :
        (mgr[p] # "new" /\ Usable(creds.apps) = {} /\ Usable(creds.hosts) = {}) =>
            /\ mgr[p] = "failed"
            /\ oauthToken[p] = ""
            /\ rpc[p] = "off"
            /\ wpc[p] = "off"
            /\ githubToken[p] = NilToken

\* C15 witness: apps.json is not JSON and hosts.json has only a gitlab
\* entry and a github.com entry with an empty token; construction has
\* failed and time has passed.
C15_Witness ==
    /\ mgr["A"] = "failed"
    /\ creds.apps = Invalid
    /\ creds.hosts.kind = "map"
    /\ now > StartTime

C17_NoSilentRetry ==
    [][\A t \in Callers :
        /\ Leaves(t, "exchange") => pc'[t] \in {"set", "return"}
        /\ (pc[t] = "exchange" /\ pc'[t] = "return") =>
              /\ rerr'[t] \in ExchangeFailures
              /\ issued' = issued
        /\ (pc[t] \in {"set", "save", "open", "write", "rename", "saved",
                        "return", "done"}) =>
              pc'[t] \notin {"check", "lock", "reload", "recheck", "exchange"}
        /\ (Leaves(t, "return") /\ rerr[t] # "") =>
              /\ pc'[t] = "done"
              /\ ret'[t] = [val |-> "", err |-> rerr[t]]
              /\ issued' = issued]_vars

\* C17 witness: a1's exchange failed on the network, and a1 has returned
\* that error; the backend has issued nothing.
C17_Witness ==
    /\ pc["a1"] = "done"
    /\ ret["a1"] = [val |-> "", err |-> "network"]
    /\ issued = 0
    /\ ~lockFile.exists

\* C18: once the context is cancelled (by the signal or by Close), both
\* refreshLoop and watchTokenFile eventually return; Close, once it waits,
\* eventually returns; and after Close has returned both goroutines have
\* returned, so that no step changes the cache, token.json, its temporary
\* file or the lock marker.
C18_Shutdown ==
    /\ cancelled["A"] ~> (rpc["A"] = "exited" /\ wpc["A"] = "exited")
    /\ (cpc["A"] = "wait") ~> (cpc["A"] = "returned")
    /\ [](cpc["A"] = "returned" =>
            rpc["A"] = "exited" /\ wpc["A"] = "exited")
    /\ [][cpc["A"] = "returned" =>
            UNCHANGED <<githubToken, tokenFile, tempFile, lockFile>>]_vars

\* C18 witness: Close has returned after the refresh loop had fetched and
\* persisted a token.
C18_Witness ==
    /\ cpc["A"] = "returned"
    /\ rpc["A"] = "exited"
    /\ wpc["A"] = "exited"
    /\ issued = 1
    /\ tokenFile.exists
    /\ githubToken["A"] # NilToken

\* C19: refreshToken(ctx, false), called while the cached token has
\* expiresAt > now + 120, returns at once to the refresh loop and changes
\* nothing: no acquireLock, no exchange, and the cache, the token files,
\* the lock marker and the self-write flag stay as they are.
C19_NoOpWhenValid ==
    [][(/\ rpc["A"] = "call" /\ rpc'["A"] # "call"
        /\ githubToken["A"] # NilToken
        /\ githubToken["A"].ExpiresAt > now + 120) =>
            /\ rpc'["A"] = "compute"
            /\ UNCHANGED <<sharedVars, watchVars, callerVars>>]_vars

\* C19 witness: the manager was started on a token.json holding the valid
\* token t0, and the loop's refreshToken has returned without a refresh:
\* nothing was issued, no marker and no temporary file exist.
C19_Witness ==
    /\ rpc["A"] = "compute"
    /\ pc["loopA"] = "idle"
    /\ pc["a1"] = "idle"
    /\ githubToken["A"] = InitToken
    /\ now = StartTime
    /\ issued = 0
    /\ ~lockFile.exists
    /\ ~tempFile.exists

\* C20: with a cached token whose expiresAt (loopExp half seconds, whole
\* or fractional) is valid by the validity rule, expiresAt > now + 120,
\* the refresh loop sleeps expiresAt - now - 120 seconds; it sleeps the
\* 5 minutes only when the token is not valid.
C20_SleepUntilMargin ==
    (rpc["A"] = "sleep" /\ loopExp > 0) =>
        IF loopExp > 2 * (sleep["A"].from + 120)
        THEN 2 * sleep["A"].dur = loopExp - 2 * (sleep["A"].from + 120)
        ELSE sleep["A"].dur = 300

\* The request was let through to the handler of its route.
Authorized == req.auth = <<"Bearer", " ">> \o cfg.CopilotToken

\* C21: when GetToken returned an error to a proxying handler
\* (/v1/chat/completions, /v1/embeddings, /v1/messages), the handler
\* answers a failure of the server class (5xx: the code writes 500) and no
\* request has been or is sent to the backend API.
C21_TokenErrorNotForwarded ==
    (hpc \in {"chat", "embeddings", "messages", "await", "done"}
        /\ pc["a1"] = "done" /\ ret["a1"].err # "") =>
            /\ sent = <<>>
            /\ hpc # "await"
            /\ hpc = "done" => resp \in 500..599

\* C21 witness: the /v1/messages handler has answered 500 to an
\* authorized request after GetToken returned the error of a failed
\* exchange.
C21_Witness ==
    /\ hpc = "done"
    /\ req.path = "/v1/messages"
    /\ Authorized
    /\ ret["a1"].err \in {"network", "status", "decode"}
    /\ resp = 500
    /\ sent = <<>>

\* C22: a request to a path other than /healthz and /v1/models is in a
\* route handler, in GetToken or at the backend only if its Authorization
\* header is "Bearer " followed by exactly the configured COPILOT_TOKEN;
\* any other is answered 401 when the header does not start with
\* "Bearer " (unknown routes included) and 403 when the token after it is
\* empty or different; /healthz and /v1/models are never answered 401 or
\* 403, whatever the header.
C22_AccessControl ==
    LET bearer == Len(req.auth) >= 2 /\ SubSeq(req.auth, 1, 2) = <<"Bearer", " ">>
        token == SubSeq(req.auth, 3, Len(req.auth))
    IN  IF req.path \in {"/healthz", "/v1/models"}
        THEN /\ resp \notin {401, 403}
             /\ pc["a1"] = "idle" /\ sent = <<>>
        ELSE /\ (hpc \in {"cors", "mux", "chat", "embeddings", "messages", "await"}
                    \/ pc["a1"] # "idle" \/ sent # <<>>) =>
                        bearer /\ token = cfg.CopilotToken /\ token # <<>>
             /\ (hpc = "done" /\ ~bearer) => resp = 401
             /\ (hpc = "done" /\ bearer
                    /\ (token = <<>> \/ token # cfg.CopilotToken)) => resp = 403

\* C22 witness: a request to an unknown route whose header has the
\* Bearer prefix and a token that only begins with the configured one has
\* been answered 403.
C22_Witness ==
    /\ hpc = "done"
    /\ req.path = "/v1/unknown"
    /\ req.auth = <<"Bearer", " ", "s3cret", "x">>
    /\ cfg.CopilotToken = <<"s3cret">>
    /\ resp = 403

\* C23: the body a proxying handler forwards carries the client's "model"
\* when the client gave a non-empty one, DEFAULT_MODEL when the client
\* gave none and DEFAULT_MODEL is set, and no "model" field when the
\* client gave none and DEFAULT_MODEL is not set.
C23_DefaultModel ==
    \A i \in 1..Len(sent) :
        LET in == req.body.fields
            out == sent[i].body
        IN  /\ ("model" \in DOMAIN in /\ in["model"] \notin {JNull, JString("")}) =>
                  "model" \in DOMAIN out /\ out["model"] = in["model"]
            /\ ("model" \notin DOMAIN in /\ env.DEFAULT_MODEL.set) =>
                  "model" \in DOMAIN out
                      /\ out["model"] = JString(env.DEFAULT_MODEL.val)
            /\ ("model" \notin DOMAIN in /\ ~env.DEFAULT_MODEL.set) =>
                  "model" \notin DOMAIN out

\* A refreshToken call of process A has sent the exchange request, whose
\* Authorization header is "token " followed by tm.oauthToken.
ExchangeSent == \E t \in {"a1", "loopA"} : Exchanged(t)

\* C24: the credential sent in the token exchange is the value of
\* COPILOT_OAUTH_TOKEN when that variable is set to a non-empty value, and
\* a credential found in the Copilot config files only when it is not
\* set; config.Load returns a configuration, with the empty credential
\* when the variable is not set and apps.json has no token.
C24_CredentialSource ==
    /\ (ExchangeSent /\ env.COPILOT_OAUTH_TOKEN.set
            /\ env.COPILOT_OAUTH_TOKEN.val # "") =>
                oauthToken["A"] = env.COPILOT_OAUTH_TOKEN.val
    /\ (ExchangeSent /\ ~env.COPILOT_OAUTH_TOKEN.set) =>
                oauthToken["A"] \in {"gho_a", "gho_b"}
    /\ (cfg # NoConfig /\ ~env.COPILOT_OAUTH_TOKEN.set
            /\ creds.apps.kind # "map") => cfg.CopilotOAuthToken = ""

\* C25: once NewTokenManager has called the loader, the credential is the
\* oauth_token of a record of apps.json whose host contains "github.com"
\* and whose token is not empty whenever apps.json parses and has such a
\* record; it is such a record's token from hosts.json only when apps.json
\* is missing, is not JSON or has no such record; and the loader failed
\* exactly when neither file has such a record.
C25_LoaderPriority ==
    LET Matching(file) ==
            IF file.kind # "map" THEN {}
            ELSE {e \in file.entries :
                    /\ \E i \in 1..(Len(e.host) - 2) :
                          <<e.host[i], e.host[i + 1], e.host[i + 2]>>
                              = <<"github", ".", "com">>
                    /\ e.oauth_token # ""}
        apps == Matching(creds.apps)
        hosts == Matching(creds.hosts)
    IN  mgr["A"] # "new" =>
            /\ apps # {} =>
                  /\ mgr["A"] = "running"
                  /\ \E e \in apps : oauthToken["A"] = e.oauth_token
            /\ (apps = {} /\ hosts # {}) =>
                  /\ mgr["A"] = "running"
                  /\ \E e \in hosts : oauthToken["A"] = e.oauth_token
            /\ mgr["A"] = "failed" <=> (apps = {} /\ hosts = {})

\* C25 witness: apps.json parses but has only a gitlab.com record, and the
\* loader returned the token of hosts.json's github.com:Iv1 record.
C25_Witness ==
    /\ mgr["A"] = "running"
    /\ creds.apps = Hosts({Entry(<<"gitlab", ".", "com">>, "gho_a1")})
    /\ creds.hosts = Hosts({Entry(<<"gitlab", ".", "com">>, "gho_h1"),
                            Entry(GithubCom \o <<":", "Iv1">>, "gho_h2")})
    /\ oauthToken["A"] = "gho_h2"

\* C26: when shutdown is signalled while a background task sleeps between
\* two cycles, the sleep is cut short: the task's return is its next
\* step, enabled at once whatever is left of its interval, for the
\* refresh loop (the computed interval) and for the change-detector (its
\* 2 seconds).
C26_InterruptibleSleep ==
    /\ (cancelled["A"] /\ rpc["A"] = "sleep"
            /\ now < sleep["A"].from + sleep["A"].dur) =>
            ENABLED (LoopStep("loopA") /\ rpc'["A"] = "exited")
    /\ (cancelled["A"] /\ wpc["A"] = "sleep" /\ now < wtimer["A"] + 2) =>
            ENABLED ((WatchWake("A") \/ WatchStep("A") \/ WatchExit("A"))
                        /\ wpc'["A"] = "exited")

\* C27: every GetToken call that has begun eventually returns its value or
\* its error, also while another process keeps the lock marker and the
\* exchange ends in its timeout; the acquisition loop makes at most 5
\* attempts and stops at the first success.
C27_GetTokenTerminates ==
    /\ \A t \in {"a1", "a2"} : (pc[t] # "idle") ~> (pc[t] = "done")
    /\ [][\A t \in {"a1", "a2"} :
            /\ attempts[t] < 5
            /\ (pc[t] = "lock" /\ ~lockFile.exists /\ pc'[t] # "lock") =>
                    pc'[t] = "exchange"
            /\ (pc[t] = "lock" /\ pc'[t] = "reload") =>
                    attempts[t] = 4 /\ lockFile.exists]_vars

\* C27 witness: a1 has returned the lock error while the other process
\* still holds the marker, after a2 had returned the same.
C27_Witness ==
    /\ pc["a1"] = "done"
    /\ ret["a1"].err = "lock"
    /\ pc["a2"] = "done"
    /\ lockFile = Lock(StartTime, "other")

\* C28: the record a refreshToken call writes after it acquired the lock
\* and its exchange succeeded is the token that exchange returned: the
\* token saveTokenToFile has read for writing is the one decoded from the
\* response, whatever the watcher and the other threads do in between.
C28_WritesOwnToken ==
    \A t \in Callers :
        (pc[t] \in {"open", "write"} /\ fetched[t] # NilToken) =>
            saving[t] = fetched[t]

\* C29: a refreshToken call that returns an error has left the cached
\* token as it was when the call began, whichever failure it returns
\* (lock exhaustion, request, network, status, decode or persist error).
\* The token the call's own exchange returned was issued during the call,
\* so the cache did not hold it when the call began: the cache does not
\* hold it when the call returns an error.
C29_ErrorLeavesCache ==
    (pc["a1"] = "return" /\ rerr["a1"] # "") =>
        (fetched["a1"] = NilToken \/ githubToken["A"] # fetched["a1"])

\* C30: the marker that a refreshToken call removes when it returns is the
\* marker that call created: a release never deletes a marker that
\* another thread or process created after the caller's own was removed
\* as stale.
C30_ReleasesOwnMarker ==
    [][\A t \in Callers :
        (lockAcquired(t) /\ pc'[t] = "return"
            /\ lockFile.exists /\ ~lockFile'.exists) =>
                lockFile.owner = t]_vars

\* C31: a lock marker that watchTokenFile removes is more than 5 minutes
\* (300 seconds) old at the moment of its removal, whatever the other
\* threads and processes did to the marker between the watcher's age test
\* and its os.Remove.
C31_RemovesOnlyStale ==
    [][\A p \in Procs :
        (wpc[p] = "remove" /\ wpc'[p] # "remove"
            /\ lockFile.exists /\ ~lockFile'.exists) =>
                now - lockFile.mtime > 300]_vars

\* C32: when the catalog could not be fetched at startup (NewModelsCache
\* returned nil), a request that reaches the handler of /v1/models is
\* answered with status 503: the handler does not fail, and does not use
\* a cache that was never constructed.
C32_ModelsUnavailable ==
    (modelsCache.nil /\ req.path = "/v1/models"
        /\ hpc \notin {"auth", "cors", "mux", "models"}
        /\ req.method # "OPTIONS") =>
            hpc = "done" /\ resp = StatusServiceUnavailable

\* C33: GetModels does not wait for a refresh that is in flight; on a
\* cache that holds a catalog it returns that catalog and no error; it
\* starts a background refresh exactly when the catalog is older than the
\* TTL or empty; it returns an error only when no catalog is cached; and a
\* refresh that fails leaves the cache as it was.
C33_GetModels ==
    /\ []((refreshing > 0 /\ refreshing < MaxRefreshes) =>
             ENABLED GetModelsCall)
    /\ [][/\ GetModelsCall =>
               /\ modelsCache' = modelsCache
               /\ Len(modelsCache.modelsJSON) > 0 =>
                      got' = [models |-> modelsCache.modelsJSON, err |-> ""]
               /\ refreshing' = refreshing + 1 <=>
                      \/ Len(modelsCache.modelsJSON) = 0
                      \/ now - modelsCache.lastFetch > modelsCache.ttl
               /\ refreshing' = refreshing \/ refreshing' = refreshing + 1
               /\ got'.err # "" => Len(modelsCache.modelsJSON) = 0
         /\ \A a \in Answers :
               (BackgroundRefresh(a) /\ refresh(modelsCache, a).err # "") =>
                   modelsCache' = modelsCache]_vars

\* GetModels has returned the catalog of a cache older than its TTL while
\* the refresh it started is still in flight.
C33_Witness ==
    /\ Len(modelsCache.modelsJSON) > 0
    /\ now - modelsCache.lastFetch > modelsCache.ttl
    /\ got = [models |-> modelsCache.modelsJSON, err |-> ""]
    /\ refreshing > 0

====
